---- MODULE Spec2Model ----
(***************************************************************************)
(* A model of the fit-clustering engine, the fit driver, the bootstrap     *)
(* resampling of CPMG profiles and the memoizing evaluation caches of      *)
(* chemex.                                                                 *)
(*                                                                         *)
(*   src/chemex/fitting.py                        run_fit,                 *)
(*                                                find_independent_clusters*)
(*   src/chemex/experiments/cpmg/cpmg_profile.py  CPMGProfile              *)
(*   src/chemex/experiments/cpmg/n_cw_0013/back_calculation.py             *)
(*                                                make_calc_observable     *)
(*                                                                         *)
(* Five specifications share the variables of the module; each one drives  *)
(* its own part of the state and leaves the rest at its initial value:     *)
(*   SpecCluster   find_independent_clusters, one loop iteration per step  *)
(*   SpecFit       run_fit over the sections of a fit configuration        *)
(*   SpecResample  make_bs_profile on one freshly constructed profile      *)
(*   SpecProfile   make_bs_profile and calculate_profile on the profiles   *)
(*   SpecCalc      the two memoized layers of one calc_observable          *)
(***************************************************************************)
EXTENDS Integers, Sequences, FiniteSets, TLC

\* ------------------------------------------------------------------------
\* Bounds of the model
\* ------------------------------------------------------------------------

\* number of distinct parameter names of the global parameter set
NParams == 2

\* largest number of profiles of a dataset
MaxProfiles == 3

Params == 1..NParams

\* ------------------------------------------------------------------------
\* Helpers
\* ------------------------------------------------------------------------

Range(s) == {s[k] : k \in 1..Len(s)}

Min(S) == CHOOSE x \in S : \A y \in S : x <= y

\* list(keys): the elements of a set of names in the order of the mapping
\* they are the keys of (ascending here)
RECURSIVE SetToSeq(_)
SetToSeq(S) ==
    IF S = {} THEN <<>>
    ELSE LET m == Min(S) IN <<m>> \o SetToSeq(S \ {m})

\* all sequences over S of length lo..hi
SeqsOf(S, lo, hi) == UNION {[1..n -> S] : n \in lo..hi}

\* ------------------------------------------------------------------------
\* The parameters and the dataset (inputs of fitting.py)
\* ------------------------------------------------------------------------

\* lmfit status of a parameter: varying, fixed, or bound to an expression
\* (a parameter with an expression never varies)
Statuses == {"vary", "fix", "expr"}

\* params[name].vary
vary(st) == st = "vary"

\* params[name].expr (truthiness)
expr(st) == st = "expr"

\* a profile, as find_independent_clusters sees it: profile.params.keys()
Profiles == (SUBSET Params) \ {{}}

\* a dataset: an ordered, non-empty collection of profiles
DataSets == SeqsOf(Profiles, 1, MaxProfiles)

StatusMaps == [Params -> Statuses]

\* ------------------------------------------------------------------------
\* State
\* ------------------------------------------------------------------------

VARIABLES
    data,           \* the dataset: the ordered profiles (each its parameter names)
    status,         \* params: the vary / fix / expr status of every parameter
    \* -- find_independent_clusters (SpecCluster)
    fic_pc,         \* "scan" (first loop), "build" (second loop), "done", "KeyError"
    fic_i,          \* position of the loop in progress
    fic_j,          \* position of the loop of line 145, 0 outside of it
    fic_name,       \* name_cluster of the cluster being built
    fic_sub,        \* params_cluster being built: its keys, in order
    clusters,       \* the list of (data_cluster, pnames_cluster, pnames_vary_cluster)
    clusters_,      \* the list of (name_cluster, data_cluster, params_cluster)
    delay,          \* params[name]._delay_asteval
    fic_ret,        \* the returned list, <<>> until the function returns
    \* -- run_fit (SpecFit)
    pc,             \* position of run_fit, or how it ended
    nsections,      \* len(fit_config.sections())
    section,        \* the section of the loop of line 36 (its number)
    fitmethod,      \* the fit method the section names (cl_fitmethod by default)
    fit_clusters,   \* clusters of line 40
    c_index,        \* position of the loop of line 53
    value,          \* params: the value of every parameter of the global set
    c_value,        \* the values held by the parameter objects of the subsets
    c_result,       \* the result of the last cluster minimized
    result,         \* the result of the last section
    calls,          \* every call of Minimizer.minimize so far, in order
    interrupts,     \* the (section, cluster) pairs that got a KeyboardInterrupt
    warned,         \* the warning of lines 91-92 was printed
    exit_msg,       \* the (method, section) named by the message of exit()
    \* -- CPMGProfile (SpecResample, SpecProfile)
    profiles,       \* the profile objects: the original, then its replicates
    caches,         \* the lru_cache objects made by lines 51 and 153
    bs_left,        \* bootstrap replicates still to draw
    evals_left,     \* calls of calculate_profile still to make
    last_op,        \* the last operation on the profiles, and what it returned
    \* -- make_calc_observable (SpecCalc)
    geometry,       \* the arguments the calculator was made with
    outer,          \* the cache of _calc_observable
    inner,          \* the cache of make_propagators
    calls_left,     \* calls of calc_observable still to make
    last_call       \* the last call of calc_observable, and what it returned

clusterVars == <<fic_pc, fic_i, fic_j, fic_name, fic_sub, clusters, clusters_,
                 delay, fic_ret>>

fitVars == <<pc, nsections, section, fitmethod, fit_clusters, c_index, value,
             c_value, c_result, result, calls, interrupts, warned, exit_msg>>

profileVars == <<profiles, caches, bs_left, evals_left, last_op>>

calcVars == <<geometry, outer, inner, calls_left, last_call>>

vars == <<data, status, clusterVars, fitVars, profileVars, calcVars>>

notCluster == <<fitVars, profileVars, calcVars>>

notFit == <<clusterVars, profileVars, calcVars>>

notProfile == <<data, status, clusterVars, fitVars, calcVars>>

notCalc == <<data, status, clusterVars, fitVars, profileVars>>

\* ------------------------------------------------------------------------
\* The parts of the state a specification does not drive stay as they are
\* here
\* ------------------------------------------------------------------------

\* no result bound yet
NoResult == [kind |-> "none", method |-> "none", params |-> <<>>, call |-> 0]

ClusterIdle ==
    /\ fic_pc = "idle"
    /\ fic_i = 0
    /\ fic_j = 0
    /\ fic_name = {}
    /\ fic_sub = <<>>
    /\ clusters = <<>>
    /\ clusters_ = <<>>
    /\ delay = [p \in Params |-> FALSE]
    /\ fic_ret = <<>>

FitIdle ==
    /\ pc = "idle"
    /\ nsections = 0
    /\ section = 0
    /\ fitmethod = "none"
    /\ fit_clusters = <<>>
    /\ c_index = 0
    /\ value = [p \in Params |-> 0]
    /\ c_value = [p \in Params |-> 0]
    /\ c_result = NoResult
    /\ result = NoResult
    /\ calls = <<>>
    /\ interrupts = {}
    /\ warned = FALSE
    /\ exit_msg = <<>>

NoOp == [op |-> "none", profile |-> 0, made |-> 0, bs_indexes |-> <<>>,
         key |-> 0, ret |-> <<>>]

ProfileIdle ==
    /\ profiles = <<>>
    /\ caches = <<>>
    /\ bs_left = 0
    /\ evals_left = 0
    /\ last_op = NoOp

NoCall == [made |-> FALSE, i0 |-> 0, args |-> <<>>, ret |-> <<>>,
           outer_hit |-> FALSE, inner_hit |-> FALSE]

CalcIdle ==
    /\ geometry = <<>>
    /\ outer = <<>>
    /\ inner = <<>>
    /\ calls_left = 0
    /\ last_call = NoCall

\* ------------------------------------------------------------------------
\* parameters.ParameterName: the label of a cluster.  A name is the set of
\* its components; two names of different parameters share the component 0
\* (the conditions common to the whole dataset) and nothing else.
\* ------------------------------------------------------------------------

\* ParameterName.from_full_name
from_full_name(pname) == {0, pname}

\* ParameterName.intersection
intersection(name1, name2) == name1 \cap name2

\* the order of ParameterName used by sorted(): a key per name
RECURSIVE NameKey(_)
NameKey(name) ==
    IF name = {} THEN 0
    ELSE LET m == Min(name) IN 2 ^ m + NameKey(name \ {m})

\* ------------------------------------------------------------------------
\* find_independent_clusters (fitting.py 97-155)
\* ------------------------------------------------------------------------

\* lines 110-112: the free parameters of a profile
pnames_vary(profile, params) ==
    {name \in profile : vary(params[name]) /\ ~expr(params[name])}

\* lines 114-120 without the break: the profile ends up in the last
\* cluster of the list whose free parameters intersect its own
LastMatch(cs, pv) ==
    LET hits == {k \in 1..Len(cs) : pv \cap cs[k].pnames_vary_cluster # {}}
    IN  IF hits = {} THEN 0 ELSE CHOOSE k \in hits : \A j \in hits : j <= k

\* lines 114-116: the first cluster of the list whose free parameters
\* intersect those of the profile, 0 when the for loop finds none (for-else)
FirstMatch(cs, pv) ==
    LET hits == {k \in 1..Len(cs) : pv \cap cs[k].pnames_vary_cluster # {}}
    IN  IF hits = {} THEN 0 ELSE Min(hits)

\* the same loop with the update of line 119 one level too shallow: every
\* cluster visited before the match takes the profile's free parameters
ClusterStepShallowUpdate(cs, idx, profile, params) ==
    LET pv == pnames_vary(profile, params)
        k  == FirstMatch(cs, pv)
        upd(c) == [c EXCEPT !.pnames_vary_cluster = @ \cup pv]
    IN  IF k # 0
        THEN [j \in 1..Len(cs) |->
                IF j < k THEN upd(cs[j])
                ELSE IF j = k
                THEN [data_cluster        |-> Append(cs[j].data_cluster, idx),
                      pnames_cluster      |-> cs[j].pnames_cluster \o SetToSeq(profile),
                      pnames_vary_cluster |-> cs[j].pnames_vary_cluster \cup pv]
                ELSE cs[j]]
        ELSE Append([j \in 1..Len(cs) |-> upd(cs[j])],
                    [data_cluster        |-> <<idx>>,
                     pnames_cluster      |-> SetToSeq(profile),
                     pnames_vary_cluster |-> pv])

\* lines 109-128: the body of the first loop for the profile data[idx]
ClusterStep(cs, idx, profile, params) ==
    LET pv == pnames_vary(profile, params)
        k  == FirstMatch(cs, pv)
    IN  IF k # 0
        THEN [cs EXCEPT ![k] =
                [data_cluster        |-> Append(@.data_cluster, idx),
                 pnames_cluster      |-> @.pnames_cluster \o SetToSeq(profile),
                 pnames_vary_cluster |-> @.pnames_vary_cluster \cup pv]]
        ELSE Append(cs, [data_cluster        |-> <<idx>>,
                         pnames_cluster      |-> SetToSeq(profile),
                         pnames_vary_cluster |-> pv])

\* lines 134-141: the label of a cluster, the intersection of the names of
\* its free parameters.  set.pop() takes them in an arbitrary order; the
\* intersection does not depend on it.  Only called on a non-empty set.
RECURSIVE name_cluster(_)
name_cluster(pv) ==
    LET first == Min(pv)
        rest  == pv \ {first}
    IN  IF rest = {} THEN from_full_name(first)
        ELSE intersection(from_full_name(first), name_cluster(rest))

\* lines 143-148: the keys of params_cluster, in the order of insertion (a
\* name assigned twice keeps its first place)
RECURSIVE params_cluster(_)
params_cluster(pnames) ==
    IF pnames = <<>> THEN <<>>
    ELSE LET init == params_cluster(SubSeq(pnames, 1, Len(pnames) - 1))
             last == pnames[Len(pnames)]
         IN  IF last \in Range(init) THEN init ELSE Append(init, last)

\* lines 132-153: the body of the second loop for one cluster
BuildCluster(c) ==
    [name_cluster   |-> name_cluster(c.pnames_vary_cluster),
     data_cluster   |-> c.data_cluster,
     params_cluster |-> params_cluster(c.pnames_cluster)]

\* line 155: sorted(clusters_), by the label; clusters of equal label keep
\* their order (sorted is stable)
RECURSIVE sorted(_)
sorted(cs) ==
    IF cs = <<>> THEN <<>>
    ELSE LET init == sorted(SubSeq(cs, 1, Len(cs) - 1))
             last == cs[Len(cs)]
             pos  == Cardinality({k \in 1..Len(init) :
                        NameKey(init[k].name_cluster) <= NameKey(last.name_cluster)})
         IN  SubSeq(init, 1, pos) \o <<last>> \o SubSeq(init, pos + 1, Len(init))

\* lines 105-128 as a whole: the first loop over a dataset
RECURSIVE ScanData(_, _)
ScanData(d, params) ==
    IF d = <<>> THEN <<>>
    ELSE ClusterStep(ScanData(SubSeq(d, 1, Len(d) - 1), params),
                     Len(d), d[Len(d)], params)

\* the whole call: the exception it raises ("none" when it returns) and the
\* list it returns.  pop() on the empty free-parameter set of a cluster
\* (line 135) raises KeyError.
find_independent_clusters(d, params) ==
    LET cs == ScanData(d, params)
    IN  IF \E k \in 1..Len(cs) : cs[k].pnames_vary_cluster = {}
        THEN [raised |-> "KeyError", clusters |-> <<>>]
        ELSE [raised |-> "none",
              clusters |-> sorted([k \in 1..Len(cs) |-> BuildCluster(cs[k])])]

\* -- the function step by step ------------------------------------------

InitCluster ==
    /\ data \in DataSets
    /\ status \in StatusMaps
    /\ fic_pc = "scan"
    /\ fic_i = 1
    /\ fic_j = 0
    /\ fic_name = {}
    /\ fic_sub = <<>>
    /\ clusters = <<>>
    /\ clusters_ = <<>>
    /\ delay = [p \in Params |-> FALSE]
    /\ fic_ret = <<>>
    /\ FitIdle
    /\ ProfileIdle
    /\ CalcIdle

\* lines 107-128: one iteration of the first loop
ScanProfile ==
    /\ fic_pc = "scan"
    /\ fic_i <= Len(data)
    /\ clusters' = ClusterStep(clusters, fic_i, data[fic_i], status)
    /\ IF fic_i = Len(data)
       THEN fic_pc' = "build" /\ fic_i' = 1
       ELSE fic_pc' = "scan" /\ fic_i' = fic_i + 1
    /\ UNCHANGED <<data, status, fic_j, fic_name, fic_sub, clusters_, delay,
                   fic_ret>>
    /\ UNCHANGED notCluster

\* lines 150-151 with the statement outside of its loop: only the
\* parameter left in `param` by the loop of line 145 has its flag cleared
clear_delay_of_last(flags, subset) ==
    [p \in Params |->
        IF subset # <<>> /\ p = subset[Len(subset)] THEN FALSE ELSE flags[p]]

\* lines 150-151: the flag is cleared on every parameter of the subset.
\* The subset holds the parameter objects of the global set themselves
\* (Parameters.__setitem__ stores the object it is given), so the flag of
\* a name is one flag.
clear_delay(flags, subset) ==
    [p \in Params |-> IF p \in Range(subset) THEN FALSE ELSE flags[p]]

\* line 148: params_cluster[pname] = param; a name assigned again keeps
\* its place
insert_param(subset, pname) ==
    IF pname \in Range(subset) THEN subset ELSE Append(subset, pname)

\* lines 132-143: the head of an iteration of the second loop: the label
\* is computed by popping every free parameter of the cluster, and an
\* empty params_cluster is made
BeginBuild ==
    /\ fic_pc = "build"
    /\ fic_i <= Len(clusters)
    /\ fic_j = 0
    /\ clusters[fic_i].pnames_vary_cluster # {}
    /\ fic_name' = name_cluster(clusters[fic_i].pnames_vary_cluster)
    /\ clusters' = [clusters EXCEPT ![fic_i].pnames_vary_cluster = {}]
    /\ fic_sub' = <<>>
    /\ fic_j' = 1
    /\ UNCHANGED <<data, status, fic_pc, fic_i, clusters_, delay, fic_ret>>
    /\ UNCHANGED notCluster

\* lines 145-148: one iteration of the loop over pnames_cluster: the flag
\* is set on the parameter, which is then put in the subset
MarkParam ==
    /\ fic_pc = "build"
    /\ fic_j >= 1
    /\ fic_j <= Len(clusters[fic_i].pnames_cluster)
    /\ LET pname == clusters[fic_i].pnames_cluster[fic_j]
       IN  /\ delay' = [delay EXCEPT ![pname] = TRUE]
           /\ fic_sub' = insert_param(fic_sub, pname)
    /\ fic_j' = fic_j + 1
    /\ UNCHANGED <<data, status, fic_pc, fic_i, fic_name, clusters, clusters_,
                   fic_ret>>
    /\ UNCHANGED notCluster

\* lines 150-153: the end of an iteration of the second loop: the flag is
\* cleared on every parameter of the subset and the cluster is appended
BuildOne ==
    /\ fic_pc = "build"
    /\ fic_j >= 1
    /\ fic_j > Len(clusters[fic_i].pnames_cluster)
    /\ delay' = clear_delay(delay, fic_sub)
    /\ clusters_' = Append(clusters_,
                          [name_cluster   |-> fic_name,
                           data_cluster   |-> clusters[fic_i].data_cluster,
                           params_cluster |-> fic_sub])
    /\ fic_i' = fic_i + 1
    /\ fic_j' = 0
    /\ UNCHANGED <<data, status, fic_pc, fic_name, fic_sub, clusters, fic_ret>>
    /\ UNCHANGED notCluster

\* line 135: pop from an empty set
BuildRaises ==
    /\ fic_pc = "build"
    /\ fic_i <= Len(clusters)
    /\ fic_j = 0
    /\ clusters[fic_i].pnames_vary_cluster = {}
    /\ fic_pc' = "KeyError"
    /\ UNCHANGED <<data, status, fic_i, fic_j, fic_name, fic_sub, clusters,
                   clusters_, delay, fic_ret>>
    /\ UNCHANGED notCluster

\* line 155
ReturnSorted ==
    /\ fic_pc = "build"
    /\ fic_i > Len(clusters)
    /\ fic_ret' = sorted(clusters_)
    /\ fic_pc' = "done"
    /\ UNCHANGED <<data, status, fic_i, fic_j, fic_name, fic_sub, clusters,
                   clusters_, delay>>
    /\ UNCHANGED notCluster

NextCluster ==
    \/ ScanProfile
    \/ BeginBuild
    \/ MarkParam
    \/ BuildOne
    \/ BuildRaises
    \/ ReturnSorted

SpecCluster == InitCluster /\ [][NextCluster]_vars

\* ------------------------------------------------------------------------
\* Properties of find_independent_clusters (under SpecCluster)
\* ------------------------------------------------------------------------

\* the free parameters referenced by the profiles of a returned cluster
FreeOf(c) ==
    UNION {pnames_vary(data[c.data_cluster[n]], status) :
             n \in 1..Len(c.data_cluster)}

\* the returned clusters that hold the profile data[idx]
ClustersOf(idx) ==
    {k \in 1..Len(fic_ret) : idx \in Range(fic_ret[k].data_cluster)}

\* a cluster of the result taken as a standalone dataset
AsDataSet(c) == [n \in 1..Len(c.data_cluster) |-> data[c.data_cluster[n]]]

\* C1: when find_independent_clusters returns, the free-parameter sets of
\* any two distinct returned clusters are disjoint (a free parameter
\* referenced by a profile of one cluster is referenced by no profile of
\* another cluster).
C1_FreeSetsDisjoint ==
    fic_pc = "done" =>
        \A k1, k2 \in 1..Len(fic_ret) :
            k1 # k2 => FreeOf(fic_ret[k1]) \cap FreeOf(fic_ret[k2]) = {}

\* C2: when find_independent_clusters returns, any two profiles of the
\* dataset that have at least one free parameter in common are in the same
\* cluster (the half of the pair-placement contract that a merge has to
\* deliver; the other half asks profiles without a common free parameter
\* to be in distinct clusters).
C2_SharedFreeSameCluster ==
    fic_pc = "done" =>
        \A i, j \in 1..Len(data) :
            pnames_vary(data[i], status) \cap pnames_vary(data[j], status) # {}
                => ClustersOf(i) = ClustersOf(j)

\* C9: partitioning is idempotent: when find_independent_clusters returns,
\* running it on any returned cluster taken as a standalone dataset (same
\* parameter statuses) returns exactly one cluster, with the same profiles
\* in the same order, the same label and the same parameter subset.
C9_Idempotent ==
    fic_pc = "done" =>
        \A k \in 1..Len(fic_ret) :
            LET c == fic_ret[k]
                r == find_independent_clusters(AsDataSet(c), status)
            IN  /\ r.raised = "none"
                /\ Len(r.clusters) = 1
                /\ r.clusters[1].data_cluster = [n \in 1..Len(c.data_cluster) |-> n]
                /\ r.clusters[1].name_cluster = c.name_cluster
                /\ r.clusters[1].params_cluster = c.params_cluster

\* a returned cluster that holds a profile sharing no free parameter with
\* the profile that started it (it joined through the profile between them)
C9_Witness ==
    /\ fic_pc = "done"
    /\ \E k \in 1..Len(fic_ret) :
          LET dc == fic_ret[k].data_cluster
          IN  /\ Len(dc) >= 3
              /\ pnames_vary(data[dc[1]], status)
                    \cap pnames_vary(data[dc[3]], status) = {}

\* ------------------------------------------------------------------------
\* run_fit (fitting.py 27-94)
\* ------------------------------------------------------------------------

\* largest number of sections of a fit configuration
MaxSections == 2

\* lines 22-24: the names a section may give
ALLOWED_FITMETHODS == {"leastsq", "brute"}

\* the names a configuration (or the command line) can hold: any string
FitMethodNames == ALLOWED_FITMETHODS \cup {"simplex"}

\* lmfit.Minimizer(c_func, c_params).minimize(...) on the subset of one
\* cluster: the result holds new values for the free parameters of the
\* subset (tagged by the call that fitted them) and the values of the
\* subset's own parameter objects for the others.  method is "leastsq"
\* when the call does not pass one.
ClusterResult(c, params, held, method, n) ==
    [kind   |-> "cluster",
     method |-> method,
     params |-> [name \in Range(c.params_cluster) |->
                    IF vary(params[name]) /\ ~expr(params[name])
                    THEN n ELSE held[name]],
     call   |-> n]

\* lines 62-72 with a handler that takes the interrupted minimizer's result
\* as it is: no call after the interrupted one
CallsOfMinimizeNoSalvage(cs, sec, k, c, method, interrupted) ==
    Append(cs, [section |-> sec, target |-> k, method |-> method,
                keep_all |-> (method = "brute"), maxfev1 |-> FALSE])

\* lines 62-72: the calls of minimize made for one cluster.  The handler of
\* KeyboardInterrupt makes one more call, with maxfev=1 and no method.
CallsOfMinimize(cs, sec, k, c, method, interrupted) ==
    LET first == [section |-> sec, target |-> k, method |-> method,
                  keep_all |-> (method = "brute"), maxfev1 |-> FALSE]
        extra == [section |-> sec, target |-> k, method |-> "leastsq",
                  keep_all |-> FALSE, maxfev1 |-> TRUE]
    IN  IF interrupted THEN cs \o <<first, extra>> ELSE Append(cs, first)

\* lines 74-75: the merge of a result into the global parameter set
MergeParams(vals, res) ==
    [name \in Params |->
        IF name \in DOMAIN res.params THEN res.params[name] ELSE vals[name]]

\* lines 29-34: the configuration has at least one section
InitFit ==
    /\ data \in DataSets
    /\ status = [p \in Params |-> "vary"]
    /\ ClusterIdle
    /\ ProfileIdle
    /\ CalcIdle
    /\ pc = "sections"
    /\ nsections \in 1..MaxSections
    /\ section = 0
    /\ fitmethod = "none"
    /\ fit_clusters = <<>>
    /\ c_index = 0
    /\ value = [p \in Params |-> 0]
    /\ c_value = [p \in Params |-> 0]
    /\ c_result = NoResult
    /\ result = NoResult
    /\ calls = <<>>
    /\ interrupts = {}
    /\ warned = FALSE
    /\ exit_msg = <<>>

\* lines 36-51: the head of the section loop.  The directives of the
\* section set the status of the parameters (any assignment), the dataset
\* is partitioned, then the method named by the section is looked up.
BeginSection ==
    /\ pc = "sections"
    /\ section < nsections
    /\ \E items \in StatusMaps, method \in FitMethodNames :
          LET found == find_independent_clusters(data, items)
          IN  /\ section' = section + 1
              /\ status' = items
              /\ fitmethod' = method
              /\ IF found.raised # "none"
                 THEN /\ pc' = found.raised
                      /\ UNCHANGED <<fit_clusters, c_index, c_value, exit_msg>>
                 ELSE /\ fit_clusters' = found.clusters
                      /\ c_value' = value
                      /\ IF method \notin ALLOWED_FITMETHODS
                         THEN /\ pc' = "exit"
                              /\ exit_msg' = <<method, section + 1>>
                              /\ UNCHANGED c_index
                         ELSE /\ pc' = "clusters"
                              /\ c_index' = 1
                              /\ UNCHANGED exit_msg
    /\ UNCHANGED <<data, notFit, nsections, value, c_result, result,
                   calls, interrupts, warned>>

\* lines 53-77: one iteration of the cluster loop: the minimization, the
\* handler of a KeyboardInterrupt raised during it, and the merge
MinimizeCluster ==
    /\ pc = "clusters"
    /\ c_index <= Len(fit_clusters)
    /\ \E interrupted \in BOOLEAN :
          LET c      == fit_clusters[c_index]
              calls2 == CallsOfMinimize(calls, section, c_index, c, fitmethod,
                                        interrupted)
              res    == ClusterResult(c, status, c_value,
                                      calls2[Len(calls2)].method, Len(calls2))
          IN  /\ calls' = calls2
              /\ c_result' = res
              /\ value' = MergeParams(value, res)
              /\ interrupts' = IF interrupted
                               THEN interrupts \cup {<<section, c_index>>}
                               ELSE interrupts
    /\ IF c_index = Len(fit_clusters)
       THEN pc' = "reconcile" /\ UNCHANGED c_index
       ELSE pc' = "clusters" /\ c_index' = c_index + 1
    /\ UNCHANGED <<data, status, notFit, nsections, section, fitmethod,
                   fit_clusters, c_value, result, warned, exit_msg>>

\* lines 79-85 without the evaluation of the whole dataset
SectionResultNoGlobal(cs, sec, cl, vals, cres) ==
    [calls |-> cs, result |-> cres]

\* lines 79-85: the result of the section and the calls made to get it
SectionResult(cs, sec, cl, vals, cres) ==
    IF Len(cl) > 1
    THEN [calls  |-> Append(cs, [section |-> sec, target |-> 0,
                                 method |-> "leastsq", keep_all |-> FALSE,
                                 maxfev1 |-> TRUE]),
          result |-> [kind |-> "global", method |-> "leastsq",
                      params |-> vals, call |-> Len(cs) + 1]]
    ELSE [calls |-> cs, result |-> cres]

\* lines 79-88: the end of a section
Reconcile ==
    /\ pc = "reconcile"
    /\ LET r == SectionResult(calls, section, fit_clusters, value, c_result)
       IN  /\ calls' = r.calls
           /\ result' = r.result
    /\ pc' = IF section < nsections THEN "sections" ELSE "finish"
    /\ UNCHANGED <<data, status, notFit, nsections, section, fitmethod,
                   fit_clusters, c_index, value, c_value, c_result, interrupts,
                   warned, exit_msg>>

\* line 90: the test of the warning
WarningDue(res) == res.method # "leastsq"

\* lines 90-94: after the last section
Finish ==
    /\ pc = "finish"
    /\ warned' = WarningDue(result)
    /\ pc' = "returned"
    /\ UNCHANGED <<data, status, notFit, nsections, section, fitmethod,
                   fit_clusters, c_index, value, c_value, c_result, result,
                   calls, interrupts, exit_msg>>

NextFit == BeginSection \/ MinimizeCluster \/ Reconcile \/ Finish

SpecFit == InitFit /\ [][NextFit]_vars

\* ------------------------------------------------------------------------
\* Properties of run_fit (under SpecFit)
\* ------------------------------------------------------------------------

\* the calls of minimize made in section sec for the target k (a cluster of
\* the section, 0 for the whole dataset), with or without maxfev=1
CallsAt(sec, k, mf) ==
    {n \in 1..Len(calls) :
        /\ calls[n].section = sec
        /\ calls[n].target = k
        /\ calls[n].maxfev1 = mf}

\* the last call made for the cluster k of section sec
LastCallAt(sec, k) ==
    CHOOSE n \in CallsAt(sec, k, TRUE) \cup CallsAt(sec, k, FALSE) :
        \A m \in CallsAt(sec, k, TRUE) \cup CallsAt(sec, k, FALSE) : m <= n

\* the section whose end (lines 79-88) run_fit has passed last
SectionEnded == pc \in {"sections", "finish", "returned"} /\ section >= 1

\* the clusters of the current section whose subset holds the parameter
Holders(name) ==
    {k \in 1..Len(fit_clusters) : name \in Range(fit_clusters[k].params_cluster)}

C4_GlobalReconcile ==
    SectionEnded =>
        IF Len(fit_clusters) > 1
        THEN /\ Cardinality(CallsAt(section, 0, TRUE)) = 1
             /\ CallsAt(section, 0, FALSE) = {}
             /\ \A n \in CallsAt(section, 0, TRUE) :
                   /\ n = Len(calls)
                   /\ \A k \in 1..Len(fit_clusters) :
                         /\ CallsAt(section, k, FALSE) # {}
                         /\ LastCallAt(section, k) < n
                   /\ result.kind = "global"
                   /\ result.call = n
             /\ result.params = value
             /\ \A name \in Params :
                   IF Holders(name) = {}
                   THEN value[name] = c_value[name]
                   ELSE LET last == CHOOSE k \in Holders(name) :
                                        \A j \in Holders(name) : j <= k
                        IN  value[name] =
                               IF vary(status[name]) /\ ~expr(status[name])
                               THEN LastCallAt(section, last)
                               ELSE c_value[name]
        ELSE /\ Len(fit_clusters) = 1
             /\ CallsAt(section, 0, TRUE) \cup CallsAt(section, 0, FALSE) = {}
             /\ result = c_result
             /\ result.kind = "cluster"
             /\ result.call = LastCallAt(section, 1)

\* the end of a second section that had two clusters, both minimized and
\* merged before the evaluation of the whole dataset
C4_Witness ==
    /\ pc = "finish"
    /\ section = 2
    /\ Len(fit_clusters) = 2
    /\ result.kind = "global"
    /\ CallsAt(2, 1, FALSE) # {}
    /\ CallsAt(2, 2, FALSE) # {}
    /\ CallsAt(2, 0, TRUE) # {}

\* C5: a section that names a fit method outside the allowed set aborts
\* the run with the message naming the method and the section; no call of
\* the minimizer is made for that section or a later one, and run_fit
\* returns no result.
C5_InvalidMethodAborts ==
    (section >= 1 /\ fitmethod \notin ALLOWED_FITMETHODS) =>
        /\ pc = "exit"
        /\ exit_msg = <<fitmethod, section>>
        /\ \A n \in 1..Len(calls) : calls[n].section < section

\* C10: when run_fit returns after a section was minimized (without any
\* interruption) with a method other than leastsq, the warning on the
\* missing uncertainties and covariance has been printed.
C10_WarningSurfaced ==
    (/\ pc = "returned"
     /\ interrupts = {}
     /\ \E n \in 1..Len(calls) : ~calls[n].maxfev1 /\ calls[n].method # "leastsq")
        => warned

\* ------------------------------------------------------------------------
\* CPMGProfile (cpmg_profile.py)
\* ------------------------------------------------------------------------

\* largest number of points of a profile
MaxPoints == 3

\* largest cycle count of a point
MaxNcyc == 2

\* largest number of bootstrap replicates drawn in a run of SpecProfile
MaxReplicates == 2

\* largest number of evaluations made in a run of SpecProfile
MaxEvals == 3

\* line 51, line 153: lru_cache(5)
profile_cache_maxsize == 5

\* line 22, line 23: the CPMG time and the pulse width of the experiment,
\* in integer units
time_t2 == 48

pw == 1

\* the cycle counts a measurement can have
NcycValues == 0..MaxNcyc

\* the parameter vectors calculate_profile can be called with (the values
\* of the kwargs of line 69), enough of them to overflow the cache
Keys == 1..(profile_cache_maxsize + 1)

\* lines 30-35: the delay of a cycle count
tau_cp(ncyc) ==
    IF ncyc > 0 THEN time_t2 \div (4 * ncyc) - pw
    ELSE IF ncyc # 0 THEN time_t2 \div 2
    ELSE 0

\* lines 13-51: the profile built from the measurements; its points are
\* told apart by their intensity, and every uncertainty is positive
NewProfile(ncycs, c) ==
    [ncycs       |-> ncycs,
     val         |-> [n \in 1..Len(ncycs) |-> 10 * n],
     err         |-> [n \in 1..Len(ncycs) |-> 1 + (n % 2)],
     reference   |-> [n \in 1..Len(ncycs) |-> ncycs[n] = 0],
     tau_cp_list |-> [n \in 1..Len(ncycs) |-> tau_cp(ncycs[n])],
     cache       |-> c]

\* the measurements a profile is built from: at least one point that is not
\* a reference point
InputNcycs ==
    {ncycs \in SeqsOf(NcycValues, 1, MaxPoints) :
        \E n \in 1..Len(ncycs) : ncycs[n] # 0}

\* lines 137-138: indexes[self.reference], indexes[logical_not(...)]
pool1(profile) == {n \in 1..Len(profile.val) : profile.reference[n]}

pool2(profile) == {n \in 1..Len(profile.val) : ~profile.reference[n]}

\* the draws of np.random.choice(pool, len(pool)): with replacement
Choices(pool) == [1..Cardinality(pool) -> pool]

\* sorted() on a list of indexes
sorted_indexes(ixs) == SortSeq(ixs, LAMBDA a, b : a < b)

\* lines 140-145 without line 145: the indexes in the order drawn
bs_indexes_unsorted(draw1, draw2) == draw1 \o draw2

\* lines 140-145: the indexes of the replicate's points
bs_indexes(draw1, draw2) == sorted_indexes(draw1 \o draw2)

\* lines 147-153 without line 153: the replicate keeps the attribute that
\* deepcopy gave it, the lru_cache object of the profile it was copied from
\* (deepcopy returns an lru_cache object itself, not a copy)
replicate_cache_kept(copied, fresh) == copied

\* lines 147-153: the lru_cache object of the replicate
replicate_cache(copied, fresh) == fresh

\* lines 147-151: the replicate's data
Resampled(profile, ixs, c) ==
    [ncycs       |-> [n \in 1..Len(ixs) |-> profile.ncycs[ixs[n]]],
     val         |-> [n \in 1..Len(ixs) |-> profile.val[ixs[n]]],
     err         |-> [n \in 1..Len(ixs) |-> profile.err[ixs[n]]],
     reference   |-> profile.reference,
     tau_cp_list |-> [n \in 1..Len(ixs) |-> profile.tau_cp_list[ixs[n]]],
     cache       |-> c]

\* line 55: the unscaled curve an experiment computes for a profile (the
\* method of self the cache wraps): one value per point, a function of the
\* point's delay and of the parameter vector
calculate_unscaled_profile(self, key) ==
    [n \in 1..Len(self.tau_cp_list) |-> <<self.tau_cp_list[n], key>>]

\* an empty lru_cache wrapping the method of the profile `owner`
NewCache(owner) == [owner |-> owner, entries |-> <<>>, hits |-> 0, misses |-> 0]

\* functools.lru_cache: a call with the key.  A hit moves the entry to the
\* most recent end; a miss calls the wrapped method, stores the value and
\* drops the least recently used entry when the cache is over its size.
LruCall(cache, key, computed, maxsize) ==
    LET hit == {n \in 1..Len(cache.entries) : cache.entries[n].key = key}
    IN  IF hit # {}
        THEN LET n == CHOOSE m \in hit : TRUE
                 e == cache.entries[n]
             IN  [cache |-> [cache EXCEPT
                               !.entries = SubSeq(@, 1, n - 1)
                                           \o SubSeq(@, n + 1, Len(@)) \o <<e>>,
                               !.hits = @ + 1],
                  value |-> e.value]
        ELSE LET all == Append(cache.entries, [key |-> key, value |-> computed])
             IN  [cache |-> [cache EXCEPT
                               !.entries = IF Len(all) > maxsize
                                           THEN Tail(all) ELSE all,
                               !.misses = @ + 1],
                  value |-> computed]

\* the state after the construction of one profile (lines 11-53), with a
\* cache that holds nothing yet
InitResample ==
    /\ data = <<>>
    /\ status = [p \in Params |-> "vary"]
    /\ ClusterIdle
    /\ FitIdle
    /\ CalcIdle
    /\ \E ncycs \in InputNcycs : profiles = <<NewProfile(ncycs, 1)>>
    /\ caches = <<NewCache(1)>>
    /\ bs_left = 1
    /\ evals_left = 0
    /\ last_op = NoOp

\* one profile whose points are in the order of the experiment, evaluated
\* since its construction for no parameter vector yet or for as many as
\* its cache holds
InitProfile ==
    /\ data = <<>>
    /\ status = [p \in Params |-> "vary"]
    /\ ClusterIdle
    /\ FitIdle
    /\ CalcIdle
    /\ profiles = <<NewProfile(<<0, 2, 1>>, 1)>>
    /\ \E warm \in {0, profile_cache_maxsize} :
          caches = <<[owner   |-> 1,
                      entries |-> [k \in 1..warm |->
                                     [key   |-> k,
                                      value |-> calculate_unscaled_profile(
                                                   profiles[1], k)]],
                      hits    |-> 0,
                      misses  |-> warm]>>
    /\ bs_left = MaxReplicates
    /\ evals_left = MaxEvals
    /\ last_op = NoOp

\* lines 134-155: make_bs_profile on the profile p
MakeBsProfile(p) ==
    /\ bs_left > 0
    /\ \E draw1 \in Choices(pool1(profiles[p])),
          draw2 \in Choices(pool2(profiles[p])) :
          LET ixs   == bs_indexes(draw1, draw2)
              fresh == Len(caches) + 1
              c     == replicate_cache(profiles[p].cache, fresh)
          IN  /\ profiles' = Append(profiles, Resampled(profiles[p], ixs, c))
              /\ caches' = Append(caches, NewCache(Len(profiles) + 1))
              /\ last_op' = [op |-> "bs", profile |-> p,
                             made |-> Len(profiles) + 1, bs_indexes |-> ixs,
                             key |-> 0, ret |-> <<>>]
    /\ bs_left' = bs_left - 1
    /\ UNCHANGED evals_left
    /\ UNCHANGED notProfile

\* lines 67-77: calculate_profile on the profile p, the parameters having
\* the values `key`.  The scale of lines 58-65 is a function of the curve
\* and of the profile's own val and err; the curve returned is kept as the
\* unscaled values and the profile they were scaled for.
CalculateProfile(p, key) ==
    /\ evals_left > 0
    /\ LET c     == profiles[p].cache
           owner == profiles[caches[c].owner]
           r     == LruCall(caches[c], key,
                            calculate_unscaled_profile(owner, key),
                            profile_cache_maxsize)
       IN  /\ caches' = [caches EXCEPT ![c] = r.cache]
           /\ last_op' = [op |-> "calc", profile |-> p, made |-> 0,
                          bs_indexes |-> <<>>, key |-> key,
                          ret |-> <<r.value, p>>]
    /\ evals_left' = evals_left - 1
    /\ UNCHANGED <<profiles, bs_left>>
    /\ UNCHANGED notProfile

NextResample == \E p \in 1..Len(profiles) : MakeBsProfile(p)

SpecResample == InitResample /\ [][NextResample]_vars

NextProfile ==
    \/ \E p \in 1..Len(profiles) : MakeBsProfile(p)
    \/ \E p \in 1..Len(profiles), key \in Keys : CalculateProfile(p, key)

SpecProfile == InitProfile /\ [][NextProfile]_vars

\* ------------------------------------------------------------------------
\* Properties of make_bs_profile (under SpecResample) and of the caches of
\* the profiles (under SpecProfile)
\* ------------------------------------------------------------------------

NonDecreasing(seq) == \A n \in 1..(Len(seq) - 1) : seq[n] <= seq[n + 1]

\* the point n of a profile: (cycle count, intensity, uncertainty, delay)
Point(profile, n) ==
    <<profile.ncycs[n], profile.val[n], profile.err[n], profile.tau_cp_list[n]>>

NbReference(profile) ==
    Cardinality({n \in 1..Len(profile.ncycs) : profile.ncycs[n] = 0})

\* what make_bs_profile keeps whatever the order of the points: the four
\* sequences of the replicate have the length of the input's, and the
\* replicate has as many reference points (and so as many others)
ResampleKeepsCounts(src, new) ==
    /\ Len(new.ncycs) = Len(src.ncycs)
    /\ Len(new.val) = Len(new.ncycs)
    /\ Len(new.err) = Len(new.ncycs)
    /\ Len(new.tau_cp_list) = Len(new.ncycs)
    /\ NbReference(new) = NbReference(src)

CacheOf(p) == caches[profiles[p].cache]

\* every profile has an lru_cache object of its own, wrapping its own
\* method, and the replicate just made has an empty one
OwnCaches ==
    /\ \A p, q \in 1..Len(profiles) :
          p # q => profiles[p].cache # profiles[q].cache
    /\ \A p \in 1..Len(profiles) : CacheOf(p).owner = p
    /\ last_op.op = "bs" => CacheOf(last_op.made) = NewCache(last_op.made)

\* a step: an evaluation touches no cache but its profile's own, and a
\* resampling changes neither the profiles there were nor their caches
OwnCachesStep ==
    /\ evals_left' < evals_left =>
          \A p \in 1..Len(profiles) :
              p # last_op'.profile =>
                  caches'[profiles'[p].cache] = caches[profiles[p].cache]
    /\ bs_left' < bs_left =>
          \A p \in 1..Len(profiles) :
              /\ profiles'[p] = profiles[p]
              /\ caches'[profiles'[p].cache] = caches[profiles[p].cache]

\* C7: the replicate returned by make_bs_profile has a fresh, empty cache,
\* an object distinct from the cache of the original and of every other
\* replicate; an evaluation on one profile never adds, hits or evicts an
\* entry in the cache of another profile; resampling leaves the data and
\* the cache of the profiles there were unchanged.
C7_CachesIndependent == []OwnCaches /\ [][OwnCachesStep]_vars

\* two replicates next to an original whose cache is full: the first
\* replicate has just been evaluated for a parameter vector the original
\* holds (a miss in its own cache), the second holds an entry of its own
C7_Witness ==
    /\ Len(profiles) = 3
    /\ Len(CacheOf(1).entries) = profile_cache_maxsize
    /\ last_op.op = "calc"
    /\ last_op.profile = 2
    /\ \E n \in 1..Len(CacheOf(1).entries) : CacheOf(1).entries[n].key = last_op.key
    /\ CacheOf(2).hits = 0
    /\ CacheOf(2).misses >= 1
    /\ CacheOf(3).entries # <<>>
    /\ CacheOf(1).hits = 0

\* ------------------------------------------------------------------------
\* make_calc_observable (n_cw_0013/back_calculation.py)
\* ------------------------------------------------------------------------

\* largest number of calls of calc_observable in a run of SpecCalc
MaxCalls == 3

\* line 69: lru_cache(100) on _calc_observable
calc_observable_maxsize == 100

\* line 43: lru_cache(1) on make_propagators
make_propagators_maxsize == 1

\* the values the optimizer gives the exchange parameters, the chemical
\* shifts of the residues, the cycle counts and the intensities
Args ==
    [pb : {1}, kex : {1, 2}, dw : {1}, r_nxy : {5}, dr_nxy : {0}, r_nz : {1},
     cs : {3, 4}, ncyc : {0, 1}]

I0Values == {1, 2}

\* line 20: the arguments of the factory
Geometries ==
    [pw : {pw}, time_t2 : {time_t2}, time_equil : {0}, ncyc_max : {calc_observable_maxsize},
     fh_flg : {"n", "y"}, ppm_to_rads : {2}, carrier : {3}]

\* lines 103-106: the keyword arguments make_propagators is called with
propagator_args(geo, args) ==
    [pb |-> args.pb, kex |-> args.kex, dw |-> args.dw * geo.ppm_to_rads,
     r_nxy |-> args.r_nxy, dr_nxy |-> args.dr_nxy, r_nz |-> args.r_nz,
     cs_offset |-> (args.cs - geo.carrier) * geo.ppm_to_rads]

\* lines 44-67: the bundle (l_free, ps), a function of the arguments and of
\* pw and time_equil
make_propagators(geo, pargs) ==
    [l_free |-> <<pargs, (2 * 314) \div (4 * geo.pw)>>,
     ps     |-> <<pargs, geo.pw, geo.time_equil>>]

\* lines 108-154: the magnetization computed from a bundle
observable(geo, bundle, args) ==
    [mag_eq   |-> args.pb,
     sequence |-> IF geo.fh_flg = "y"
                  THEN (IF args.ncyc = 0 THEN "y, reference" ELSE "y, train")
                  ELSE (IF args.ncyc = 0 THEN "n, reference" ELSE "n, train"),
     t_cp     |-> IF args.ncyc = 0 THEN 0
                  ELSE IF geo.fh_flg = "y"
                  THEN ((100 * geo.time_t2) \div (4 * args.ncyc)) - 100 * geo.pw
                  ELSE ((100 * geo.time_t2) \div (4 * args.ncyc)) - 75 * geo.pw,
     padding  |-> IF geo.fh_flg = "y" THEN 0
                  ELSE IF args.ncyc = 0 THEN geo.ncyc_max - 1
                  ELSE geo.ncyc_max - args.ncyc,
     ncyc     |-> args.ncyc,
     from     |-> bundle]

\* lines 103-154 with no cache at all
uncached_observable(geo, args) ==
    observable(geo, make_propagators(geo, propagator_args(geo, args)), args)

\* chemex.caching.lru_cache: a call through the decorator, a least
\* recently used cache of at most maxsize entries
caching_lru_call(cache, key, computed, maxsize) ==
    LruCall(cache, key, computed, maxsize)

\* the position of a key in a cache, 0 when it is not there
LruFind(cache, key) ==
    LET hit == {n \in 1..Len(cache.entries) : cache.entries[n].key = key}
    IN  IF hit = {} THEN 0 ELSE CHOOSE n \in hit : TRUE

\* lines 69-154 with the inner cache asked under the exchange parameters
\* alone, the offset of the chemical shift left out of its key
cached_observable_keyed_without_cs(geo, out, inn, args) ==
    IF LruFind(out, args) # 0
    THEN LET r == caching_lru_call(out, args, <<>>, calc_observable_maxsize)
         IN  [outer |-> r.cache, inner |-> inn, value |-> r.value,
              outer_hit |-> TRUE, inner_hit |-> FALSE]
    ELSE LET pargs == propagator_args(geo, args)
             key   == [pargs EXCEPT !.cs_offset = 0]
             ri    == caching_lru_call(inn, key, make_propagators(geo, pargs),
                              make_propagators_maxsize)
             ro    == caching_lru_call(out, args, observable(geo, ri.value, args),
                              calc_observable_maxsize)
         IN  [outer |-> ro.cache, inner |-> ri.cache, value |-> ro.value,
              outer_hit |-> FALSE, inner_hit |-> LruFind(inn, key) # 0]

\* lines 43-154 with make_propagators decorated with a cache of two entries
cached_observable_inner_of_two(geo, out, inn, args) ==
    IF LruFind(out, args) # 0
    THEN LET r == caching_lru_call(out, args, <<>>, calc_observable_maxsize)
         IN  [outer |-> r.cache, inner |-> inn, value |-> r.value,
              outer_hit |-> TRUE, inner_hit |-> FALSE]
    ELSE LET pargs == propagator_args(geo, args)
             ri    == caching_lru_call(inn, pargs, make_propagators(geo, pargs),
                              make_propagators_maxsize + 1)
             ro    == caching_lru_call(out, args, observable(geo, ri.value, args),
                              calc_observable_maxsize)
         IN  [outer |-> ro.cache, inner |-> ri.cache, value |-> ro.value,
              outer_hit |-> FALSE, inner_hit |-> LruFind(inn, pargs) # 0]

\* lines 103-106 with the cycle count passed on to make_propagators, so
\* that it is part of the key of its cache
cached_observable_keyed_with_ncyc(geo, out, inn, args) ==
    IF LruFind(out, args) # 0
    THEN LET r == caching_lru_call(out, args, <<>>, calc_observable_maxsize)
         IN  [outer |-> r.cache, inner |-> inn, value |-> r.value,
              outer_hit |-> TRUE, inner_hit |-> FALSE]
    ELSE LET pargs == propagator_args(geo, args)
             key   == [pb |-> pargs.pb, kex |-> pargs.kex, dw |-> pargs.dw,
                       r_nxy |-> pargs.r_nxy, dr_nxy |-> pargs.dr_nxy,
                       r_nz |-> pargs.r_nz, cs_offset |-> pargs.cs_offset,
                       ncyc |-> args.ncyc]
             ri    == caching_lru_call(inn, key, make_propagators(geo, pargs),
                              make_propagators_maxsize)
             ro    == caching_lru_call(out, args, observable(geo, ri.value, args),
                              calc_observable_maxsize)
         IN  [outer |-> ro.cache, inner |-> ri.cache, value |-> ro.value,
              outer_hit |-> FALSE, inner_hit |-> LruFind(inn, key) # 0]

\* lines 69-154: _calc_observable(**args) through its cache; on a miss the
\* body runs and calls make_propagators through the cache of line 43
cached_observable(geo, out, inn, args) ==
    IF LruFind(out, args) # 0
    THEN LET r == caching_lru_call(out, args, <<>>, calc_observable_maxsize)
         IN  [outer |-> r.cache, inner |-> inn, value |-> r.value,
              outer_hit |-> TRUE, inner_hit |-> FALSE]
    ELSE LET pargs == propagator_args(geo, args)
             ri    == caching_lru_call(inn, pargs, make_propagators(geo, pargs),
                              make_propagators_maxsize)
             ro    == caching_lru_call(out, args, observable(geo, ri.value, args),
                              calc_observable_maxsize)
         IN  [outer |-> ro.cache, inner |-> ri.cache, value |-> ro.value,
              outer_hit |-> FALSE, inner_hit |-> LruFind(inn, pargs) # 0]

\* the arguments of the evaluations that filled the cache before the run:
\* one parameter vector, the cycle counts 1, 2, ... of one long profile
WarmArgs(n) ==
    [pb |-> 1, kex |-> 1, dw |-> 1, r_nxy |-> 5, dr_nxy |-> 0, r_nz |-> 1,
     cs |-> 3, ncyc |-> n]

\* the calculator as make_calc_observable returns it, or after the
\* evaluation of a profile of as many cycle counts as the outer cache holds
InitCalc ==
    /\ data = <<>>
    /\ status = [p \in Params |-> "vary"]
    /\ ClusterIdle
    /\ FitIdle
    /\ ProfileIdle
    /\ geometry \in Geometries
    /\ \E warm \in {0, calc_observable_maxsize} :
          /\ outer = [owner   |-> 0,
                      entries |-> [n \in 1..warm |->
                                     [key   |-> WarmArgs(n),
                                      value |-> uncached_observable(
                                                   geometry, WarmArgs(n))]],
                      hits    |-> 0,
                      misses  |-> warm]
          /\ inner = [owner   |-> 0,
                      entries |-> IF warm = 0 THEN <<>>
                                  ELSE <<[key   |-> propagator_args(geometry, WarmArgs(1)),
                                          value |-> make_propagators(geometry,
                                                      propagator_args(geometry, WarmArgs(1)))]>>,
                      hits    |-> IF warm = 0 THEN 0 ELSE warm - 1,
                      misses  |-> IF warm = 0 THEN 0 ELSE 1]
    /\ calls_left = MaxCalls
    /\ last_call = NoCall

\* lines 156-172: calc_observable(i0, **args)
CalcObservable(i0, args) ==
    /\ calls_left > 0
    /\ LET r == cached_observable(geometry, outer, inner, args)
       IN  /\ outer' = r.outer
           /\ inner' = r.inner
           /\ last_call' = [made |-> TRUE, i0 |-> i0, args |-> args,
                            ret |-> <<i0, r.value>>,
                            outer_hit |-> r.outer_hit, inner_hit |-> r.inner_hit]
    /\ calls_left' = calls_left - 1
    /\ UNCHANGED geometry
    /\ UNCHANGED notCalc

NextCalc == \E i0 \in I0Values, args \in Args : CalcObservable(i0, args)

SpecCalc == InitCalc /\ [][NextCalc]_vars

\* ------------------------------------------------------------------------
\* Properties of the caches of the calculator (under SpecCalc)
\* ------------------------------------------------------------------------

\* C8: every call of calc_observable returns the value the computation
\* without any cache gives for its arguments (so two calls with the same
\* arguments return the same value whatever was called in between), and the
\* two caches hold, for every key, the value computed from that key.
C8_CacheCoherent ==
    /\ last_call.made =>
          last_call.ret = <<last_call.i0, uncached_observable(geometry, last_call.args)>>
    /\ \A n \in 1..Len(outer.entries) :
          outer.entries[n].value = uncached_observable(geometry, outer.entries[n].key)
    /\ \A n \in 1..Len(inner.entries) :
          inner.entries[n].value = make_propagators(geometry, inner.entries[n].key)
    /\ Len(outer.entries) <= calc_observable_maxsize
    /\ Len(inner.entries) <= make_propagators_maxsize

\* a call that misses in a full outer cache (an entry is dropped) and whose
\* exchange parameters replace the bundle of the inner cache, after which
\* the key that was dropped is asked again and computed anew
C8_Witness ==
    /\ last_call.made
    /\ calls_left = MaxCalls - 2
    /\ last_call.args = WarmArgs(1)
    /\ ~last_call.outer_hit
    /\ ~last_call.inner_hit
    /\ outer.misses = calc_observable_maxsize + 2
    /\ Len(outer.entries) = calc_observable_maxsize
    /\ inner.misses = 3

\* the exchange parameters of a key of make_propagators
ExchangeOf(pargs) ==
    [pb |-> pargs.pb, kex |-> pargs.kex, dw |-> pargs.dw,
     r_nxy |-> pargs.r_nxy, dr_nxy |-> pargs.dr_nxy, r_nz |-> pargs.r_nz]

\* the exchange parameters make_propagators is or would be called with for
\* the arguments of an evaluation
ExchangeOfCall(args) == ExchangeOf(propagator_args(geometry, args))

\* the exchange parameters of the call differ from those of the cached key
\* (or nothing is cached)
DiffersFromCached(cache, args) ==
    \A n \in 1..Len(cache.entries) :
        ExchangeOf(cache.entries[n].key) # ExchangeOfCall(args)

\* the cache of make_propagators after a call that computed the bundle of
\* the arguments args and put it in the place of what was cached
Recomputed(before, after, args) ==
    /\ after.misses = before.misses + 1
    /\ after.hits = before.hits
    /\ after.entries =
          <<[key   |-> propagator_args(geometry, args),
             value |-> make_propagators(geometry, propagator_args(geometry, args))]>>

\* C11 (as stated): the cache of make_propagators holds at most one bundle,
\* and every evaluation whose exchange parameters differ from those of the
\* cached key recomputes the propagators and replaces the cached bundle.
C11_AnyCallReplaces ==
    [][ /\ Len(inner'.entries) <= make_propagators_maxsize
        /\ DiffersFromCached(inner, last_call'.args)
              => Recomputed(inner, inner', last_call'.args) ]_vars

\* C11 (amended): the cache of make_propagators holds at most one bundle;
\* an evaluation answered by the cache of _calc_observable leaves it as it
\* is; an evaluation that is not calls make_propagators, after which the
\* cache holds the bundle of that call's key and nothing else, and when the
\* exchange parameters of the call differ from those of the cached key the
\* bundle was recomputed and has replaced the cached one.
C11_InnerHoldsLastRequested ==
    /\ [](Len(inner.entries) <= make_propagators_maxsize)
    /\ [][ IF last_call'.outer_hit
           THEN inner' = inner
           ELSE /\ Len(inner'.entries) = 1
                /\ inner'.entries[1].key = propagator_args(geometry, last_call'.args)
                /\ DiffersFromCached(inner, last_call'.args)
                      => Recomputed(inner, inner', last_call'.args) ]_vars

\* an evaluation with new exchange parameters has replaced the bundle of an
\* earlier evaluation, and the evaluation after it was answered by the
\* outer cache for the earlier exchange parameters, leaving the bundle
C11_Witness ==
    /\ last_call.made
    /\ last_call.outer_hit
    /\ inner.misses >= 2
    /\ Len(inner.entries) = 1
    /\ ExchangeOf(inner.entries[1].key) # ExchangeOfCall(last_call.args)

\* two evaluations in a row, the second with the arguments of the first
\* but for the fields named
DiffersOnlyIn(prev, next, fields) ==
    /\ \A f \in DOMAIN next : f \notin fields => prev[f] = next[f]
    /\ \E f \in fields : prev[f] # next[f]

\* the call of the step did not compute a propagator bundle
NoBundleComputed == inner'.misses = inner.misses

\* C12 (as stated): of two evaluations in a row on one calculator with the
\* same exchange parameters that differ only in the cycle count, or only
\* in the chemical shift cs, the second computes no propagator bundle.
C12_KeyExcludesCsAndNcyc ==
    [][ (/\ last_call.made
         /\ \/ DiffersOnlyIn(last_call.args, last_call'.args, {"ncyc"})
            \/ DiffersOnlyIn(last_call.args, last_call'.args, {"cs"}))
           => NoBundleComputed ]_vars

\* C12 (amended): the key of the cache of make_propagators is made of the
\* exchange parameters and of the offset of the chemical shift, not of the
\* cycle count.  Of two evaluations in a row, the first of which went
\* through make_propagators: when the second differs only in the cycle
\* count it computes no bundle (it reuses the cached one when it gets to
\* make_propagators); when it differs only in cs and is not answered by
\* the cache of _calc_observable, it computes a new bundle, which replaces
\* the cached one.
C12_KeyExcludesNcycOnly ==
    [][ (last_call.made /\ ~last_call.outer_hit) =>
          /\ DiffersOnlyIn(last_call.args, last_call'.args, {"ncyc"})
                => /\ NoBundleComputed
                   /\ inner'.entries = inner.entries
                   /\ ~last_call'.outer_hit
                         => last_call'.inner_hit /\ inner'.hits = inner.hits + 1
          /\ (/\ DiffersOnlyIn(last_call.args, last_call'.args, {"cs"})
              /\ ~last_call'.outer_hit)
                => /\ inner'.misses = inner.misses + 1
                   /\ inner'.entries # inner.entries
                   /\ ~last_call'.inner_hit ]_vars

\* an evaluation that computed a bundle, then one that differs only in the
\* cycle count and reused it, then one that differs only in cs and
\* computed another
C12_Witness ==
    /\ last_call.made
    /\ ~last_call.outer_hit
    /\ ~last_call.inner_hit
    /\ inner.hits = 1
    /\ inner.misses = 2
    /\ outer.misses = 3
    /\ ExchangeOfCall(last_call.args) = ExchangeOfCall(outer.entries[1].key)
    /\ outer.entries[1].key.cs = outer.entries[2].key.cs
    /\ outer.entries[1].key.ncyc # outer.entries[2].key.ncyc
    /\ DiffersOnlyIn(outer.entries[2].key, last_call.args, {"cs"})

\* ------------------------------------------------------------------------
\* Properties of the loops of find_independent_clusters (under SpecCluster)
\* ------------------------------------------------------------------------

\* the clusters of the running list whose free parameters intersect those
\* of the profile the first loop is at
Matching ==
    {k \in 1..Len(clusters) :
        pnames_vary(data[fic_i], status) \cap clusters[k].pnames_vary_cluster # {}}

ReturnsAsAWhole ==
    fic_pc = "done" => fic_ret = find_independent_clusters(data, status).clusters

\* the returned clusters whose parameter subset holds the name
SubsetsWith(p) == {k \in 1..Len(fic_ret) : p \in Range(fic_ret[k].params_cluster)}

\* C14: while a cluster's parameter subset is built, every parameter put
\* in it has the deferred-evaluation flag set at that time (the flags set
\* are those of the parameters of the subset so far); once the subset is
\* complete the flag of every parameter of it is cleared; between the
\* clusters, and when find_independent_clusters returns, no parameter has
\* the flag set, also one that is in the subsets of several clusters.
C14_DelayFlagCleared ==
    /\ [](fic_j = 0 => \A p \in Params : ~delay[p])
    /\ [](fic_j >= 1 => \A p \in Params : delay[p] <=> p \in Range(fic_sub))
    /\ [](fic_pc = "done" =>
             /\ \A p \in Params : ~delay[p]
             /\ ReturnsAsAWhole)
    /\ [][ fic_sub' # fic_sub =>
             \A p \in Range(fic_sub') \ Range(fic_sub) : delay'[p] ]_vars

\* the function has returned two clusters whose subsets have a parameter
\* in common, which was flagged and cleared once for each
C14_Witness ==
    /\ fic_pc = "done"
    /\ \E p \in Params : Cardinality(SubsetsWith(p)) >= 2
    /\ \A p \in Params : ~delay[p]

\* C15: for every dataset and status assignment, also with a profile that
\* has no free parameter, find_independent_clusters returns (it does not
\* end in an exception) and the returned clusters partition the dataset:
\* every profile is in exactly one cluster, no cluster is empty, the
\* profiles of a cluster are in dataset order, and the parameter subset of
\* a cluster holds exactly the names its profiles reference.
C15_ClustersPartition ==
    /\ fic_pc # "KeyError"
    /\ fic_pc = "done" =>
          /\ \A idx \in 1..Len(data) : Cardinality(ClustersOf(idx)) = 1
          /\ \A k \in 1..Len(fic_ret) :
                LET c == fic_ret[k]
                IN  /\ c.data_cluster # <<>>
                    /\ \A m, n \in 1..Len(c.data_cluster) :
                          m < n => c.data_cluster[m] < c.data_cluster[n]
                    /\ Range(c.params_cluster) =
                          UNION {data[c.data_cluster[n]] : n \in 1..Len(c.data_cluster)}

====
